---- MODULE Spec2Model ----
(***************************************************************************)
(* Model of dependency_resolver.py: the DependencyResolver class           *)
(* (scan_plugins, parse_requirements, detect_conflicts,                    *)
(* replace_dependency) and the module-level check_conflicts.               *)
(*                                                                         *)
(* A manifest (requirements.txt) is a sequence of lines.  A line is the    *)
(* record [kind, name, clauses, eol]: kind tells a blank line, a comment   *)
(* ('#...') and a declaration apart, name and clauses are the declaration  *)
(* as written (clauses in the written order, each <<operator, version      *)
(* text>>), eol is the terminator the file holds.  A version text is the   *)
(* sequence of its dot-separated numbers: <<1, 0>> is "1.0".               *)
(***************************************************************************)
EXTENDS Integers, Sequences, FiniteSets, TLC

\* Bounds of the model.
MaxLines == 3      \* lines in the manifests of a run, all plugins together
MaxScans == 2      \* scan_plugins calls on one resolver
MaxRaises == 1     \* manifests whose read raises in one scan

\* plugins_dir.iterdir(): the plugin directories, in the order it yields them.
PluginDirs == <<"A", "B">>

Plugins == {PluginDirs[i] : i \in 1..Len(PluginDirs)}

----------------------------------------------------------------------------
\* Text: names, versions, clauses, lines.

\* str.lower() on the names of the model.
Lower(s) ==
  CASE s = "libX" -> "libx"
    [] s = "libY" -> "liby"
    [] OTHER -> s

\* The operators packaging's Specifier accepts.
SupportedOps == {"==", ">=", "<=", ">", "<", "~=", "!=", "==="}

Cl(op, ver) == <<op, ver>>

TextLine(name, clauses, eol) ==
  [kind |-> "text", name |-> name, clauses |-> clauses, eol |-> eol]

CommentLine(eol) ==
  [kind |-> "comment", name |-> "", clauses |-> <<>>, eol |-> eol]

BlankLine(eol) ==
  [kind |-> "blank", name |-> "", clauses |-> <<>>, eol |-> eol]

\* The lines a manifest of the model is made of.
LinePool ==
  { TextLine("libX", <<Cl(">=", <<1>>)>>, "LF"),                      \* libX>=1
    TextLine("libX", <<Cl(">", <<1>>)>>, "LF"),                       \* libX>1
    TextLine("libx", <<Cl("<=", <<1, 0>>)>>, "LF"),                   \* libx<=1.0
    TextLine("libX", <<Cl("==", <<2>>), Cl("<", <<1>>)>>, "LF"),      \* libX==2,<1
    TextLine("libX", <<Cl("!=", <<1>>)>>, "LF"),                      \* libX!=1
    TextLine("libY", <<Cl("~=", <<1, 0>>)>>, "LF"),                   \* libY~=1.0
    TextLine("libX", <<Cl("=>", <<1>>)>>, "LF"),                      \* libX=>1 (no such operator)
    CommentLine("CRLF"),                                              \* # note, ended \r\n
    BlankLine("LF") }                                                 \* an empty line

\* The manifests of n lines.  Every plugin directory of the model holds a
\* requirements.txt, which may be empty.
Manifests(n) == [1..n -> LinePool]

----------------------------------------------------------------------------
\* packaging.version.parse: a release is compared number by number, a missing
\* trailing number counting as zero, so "1.0" and "1" are the same Version.
RECURSIVE parse(_)
parse(ver) ==
  IF Len(ver) > 1 /\ ver[Len(ver)] = 0
  THEN parse(SubSeq(ver, 1, Len(ver) - 1))
  ELSE ver

Seg(v, i) == IF i <= Len(v) THEN v[i] ELSE 0

MaxOf(a, b) == IF a >= b THEN a ELSE b

\* Version.__lt__ and Version.__gt__ on parsed versions.
VersionLT(a, b) ==
  \E i \in 1..MaxOf(Len(a), Len(b)) :
    /\ Seg(a, i) < Seg(b, i)
    /\ \A j \in 1..(i - 1) : Seg(a, j) = Seg(b, j)

VersionGT(a, b) == VersionLT(b, a)

----------------------------------------------------------------------------
\* packaging.requirements.Requirement and packaging.specifiers.SpecifierSet.

\* line.strip(): the line without its terminator.
Strip(line) == [kind |-> line.kind, name |-> line.name, clauses |-> line.clauses]

\* Requirement(line) raises InvalidRequirement on a clause whose operator is
\* not one of the specifier operators.
Parseable(text) ==
  /\ text.kind = "text"
  /\ \A i \in 1..Len(text.clauses) : text.clauses[i][1] \in SupportedOps

\* Requirement(line): the name as written and the SpecifierSet, a set of clauses.
Requirement(text) ==
  [name |-> text.name,
   specifier |-> {text.clauses[i] : i \in 1..Len(text.clauses)}]

\* The order of the operators' texts as strings ('!' < '<' < '=' < '>' < '~').
OpRank(op) ==
  CASE op = "!=" -> 1
    [] op = "<" -> 2
    [] op = "<=" -> 3
    [] op = "==" -> 4
    [] op = "===" -> 5
    [] op = ">" -> 6
    [] op = ">=" -> 7
    [] OTHER -> 8

\* str(a) < str(b) for two clauses: by operator text, then by version text.
ClauseStrLT(a, b) ==
  \/ OpRank(a[1]) < OpRank(b[1])
  \/ /\ a[1] = b[1]
     /\ \/ \E i \in 1..Len(a[2]) :
             /\ i <= Len(b[2])
             /\ a[2][i] < b[2][i]
             /\ \A j \in 1..(i - 1) : a[2][j] = b[2][j]
        \/ /\ Len(a[2]) < Len(b[2])
           /\ \A j \in 1..Len(a[2]) : a[2][j] = b[2][j]

RECURSIVE Sorted(_)
Sorted(S) ==
  IF S = {} THEN <<>>
  ELSE LET m == CHOOSE x \in S : \A y \in S : ~ClauseStrLT(y, x)
       IN  <<m>> \o Sorted(S \ {m})

\* str(SpecifierSet): the clauses' texts, sorted and joined by commas.  The
\* rendered text is modelled as the sorted sequence of clauses.
SpecifierStr(specifier) == Sorted(specifier)

\* iter(SpecifierSet).  No line of LinePool holds two lower clauses, or two
\* upper clauses, at one version, so the order in which a SpecifierSet yields
\* its clauses does not change what detect_conflicts computes; the sorted
\* order stands for it.
SpecifierIter(specifier) == Sorted(specifier)

\* DependencyRequirement(name=req.name.lower(), specifier=req.specifier,
\*                       original_line=line, plugin_name=plugin_name)
DependencyRequirement(text, plugin_name) ==
  [name |-> Lower(Requirement(text).name),
   specifier |-> Requirement(text).specifier,
   original_line |-> text,
   plugin_name |-> plugin_name]

----------------------------------------------------------------------------
\* A Python dict, which keeps its keys in insertion order: a sequence of
\* [k, v] entries with distinct keys.
DictHas(d, k) == \E i \in 1..Len(d) : d[i].k = k

DictGet(d, k) == d[CHOOSE i \in 1..Len(d) : d[i].k = k].v

\* d[k] = v
DictSet(d, k, v) ==
  IF DictHas(d, k)
  THEN [i \in 1..Len(d) |-> IF d[i].k = k THEN [k |-> k, v |-> v] ELSE d[i]]
  ELSE Append(d, [k |-> k, v |-> v])

DictKeys(d) == {d[i].k : i \in 1..Len(d)}

----------------------------------------------------------------------------
\* DependencyResolver.  A resolver is the record [all_requirements,
\* dependency_requirements, warnings, errors]; warnings is the sequence of
\* logger.warning records "cannot parse <plugin>'s dependency (line <n>)",
\* errors the sequence of logger.error records "cannot read file <req_file>".

\* DependencyResolver.__init__
NewResolver ==
  [all_requirements |-> <<>>, dependency_requirements |-> <<>>,
   warnings |-> <<>>, errors |-> <<>>]

\* parse_line with the lines numbered from 0 (enumerate(f) without its start).
parse_line_from0(st, plugin_name, raw_line, line_num) ==
  LET line == Strip(raw_line) IN
  IF line.kind \in {"blank", "comment"} THEN st
  ELSE IF Parseable(line)
  THEN
    LET dep_req == DependencyRequirement(line, plugin_name)
        idx == st.r.dependency_requirements
        had == IF DictHas(idx, dep_req.name) THEN DictGet(idx, dep_req.name) ELSE <<>>
    IN  [r |-> [st.r EXCEPT !.dependency_requirements =
                              DictSet(idx, dep_req.name, Append(had, dep_req))],
         requirements |-> Append(st.requirements, dep_req)]
  ELSE
    [st EXCEPT !.r.warnings =
                 Append(@, [plugin |-> plugin_name, line_num |-> line_num - 1])]

\* One turn of the loop of parse_requirements (lines 132-157) on the line
\* numbered line_num: st is [r, requirements], the resolver and the local list.
parse_line(st, plugin_name, raw_line, line_num) ==
  LET line == Strip(raw_line) IN
  IF line.kind \in {"blank", "comment"} THEN st
  ELSE IF Parseable(line)
  THEN
    LET dep_req == DependencyRequirement(line, plugin_name)
        idx == st.r.dependency_requirements
        had == IF DictHas(idx, dep_req.name) THEN DictGet(idx, dep_req.name) ELSE <<>>
    IN  [r |-> [st.r EXCEPT !.dependency_requirements =
                              DictSet(idx, dep_req.name, Append(had, dep_req))],
         requirements |-> Append(st.requirements, dep_req)]
  ELSE
    [st EXCEPT !.r.warnings =
                 Append(@, [plugin |-> plugin_name, line_num |-> line_num])]

\* parse_requirements, from line line_num on; after the last line,
\* all_requirements[plugin_name] = requirements (line 163).
RECURSIVE parse_lines(_, _, _, _)
parse_lines(st, plugin_name, lines, line_num) ==
  IF line_num > Len(lines)
  THEN [st.r EXCEPT !.all_requirements = DictSet(@, plugin_name, st.requirements)]
  ELSE parse_lines(parse_line(st, plugin_name, lines[line_num], line_num),
                   plugin_name, lines, line_num + 1)

parse_requirements(r, plugin_name, req_file) ==
  parse_lines([r |-> r, requirements |-> <<>>], plugin_name, req_file, 1)

\* scan_plugins, from the i-th plugin directory on.
RECURSIVE scan_from(_, _, _)
scan_from(r, fs, i) ==
  IF i > Len(PluginDirs) THEN r
  ELSE LET plugin_name == PluginDirs[i] IN
       scan_from(parse_requirements(r, plugin_name, fs[plugin_name]), fs, i + 1)

scan_plugins(r, fs) == scan_from(r, fs, 1)

----------------------------------------------------------------------------
\* Reading a manifest can raise: open() fails (no permission, not a regular
\* file), or a later read does (an I/O error, bytes that are not UTF-8 past
\* the first buffer).  The reads of a scan are a function from the plugins to
\* <<>>, the manifest is read to its end, or <<k>>, the iteration yields k
\* lines and then raises.
ReadOutcomes(req_file) == {<<>>} \cup {<<k>> : k \in 0..Len(req_file)}

Raises(reads) == {p \in Plugins : reads[p] # <<>>}

\* The reads of a scan in which at least one read, at most MaxRaises, raises.
ReadsOf(fs) ==
  {reads \in [Plugins -> UNION {ReadOutcomes(fs[p]) : p \in Plugins}] :
     /\ \A p \in Plugins : reads[p] \in ReadOutcomes(fs[p])
     /\ Cardinality(Raises(reads)) \in 1..MaxRaises}

\* The turns of the loop of parse_requirements on the lines numbered
\* line_num..last.
RECURSIVE parse_until(_, _, _, _, _)
parse_until(st, plugin_name, lines, line_num, last) ==
  IF line_num > last THEN st
  ELSE parse_until(parse_line(st, plugin_name, lines[line_num], line_num),
                   plugin_name, lines, line_num + 1, last)

\* parse_requirements when the read raises after `yielded` lines: what the
\* loop appended to the index stays, the handler of lines 158-161 logs the
\* error and returns before line 163.
parse_requirements_raising(r, plugin_name, req_file, yielded) ==
  LET st == parse_until([r |-> r, requirements |-> <<>>],
                        plugin_name, req_file, 1, yielded)
  IN  [st.r EXCEPT !.errors = Append(@, [plugin |-> plugin_name])]

\* scan_plugins under the reads `reads`, from the i-th plugin directory on.
RECURSIVE scan_from_reads(_, _, _, _)
scan_from_reads(r, fs, reads, i) ==
  IF i > Len(PluginDirs) THEN r
  ELSE LET plugin_name == PluginDirs[i]
           after == IF reads[plugin_name] = <<>>
                    THEN parse_requirements(r, plugin_name, fs[plugin_name])
                    ELSE parse_requirements_raising(r, plugin_name, fs[plugin_name],
                                                    reads[plugin_name][1])
       IN  scan_from_reads(after, fs, reads, i + 1)

scan_plugins_reads(r, fs, reads) == scan_from_reads(r, fs, reads, 1)

----------------------------------------------------------------------------
\* detect_conflicts.

\* The two nested loops "for req in requirements: for spec in req.specifier",
\* flattened: one item per clause, in the order the loops visit them.
RECURSIVE SpecItems(_)
SpecItems(requirements) ==
  IF requirements = <<>> THEN <<>>
  ELSE LET req == Head(requirements)
           it == SpecifierIter(req.specifier)
       IN  [i \in 1..Len(it) |->
              [plugin_name |-> req.plugin_name, operator |-> it[i][1], version |-> it[i][2]]]
           \o SpecItems(Tail(requirements))

\* The first loop: the dict min_versions, plugin -> (version, operator).
RECURSIVE min_versions_loop(_, _)
min_versions_loop(min_versions, items) ==
  IF items = <<>> THEN min_versions
  ELSE
    LET spec == Head(items)
        next ==
          IF spec.operator \in {">=", "==", ">"}
          THEN IF ~DictHas(min_versions, spec.plugin_name)
               THEN DictSet(min_versions, spec.plugin_name, <<spec.version, spec.operator>>)
               ELSE LET current_ver == DictGet(min_versions, spec.plugin_name)[1] IN
                    IF VersionGT(parse(spec.version), parse(current_ver))
                    THEN DictSet(min_versions, spec.plugin_name,
                                 <<spec.version, spec.operator>>)
                    ELSE min_versions
          ELSE min_versions
    IN  min_versions_loop(next, Tail(items))

\* The second loop: the dict max_versions.
RECURSIVE max_versions_loop(_, _)
max_versions_loop(max_versions, items) ==
  IF items = <<>> THEN max_versions
  ELSE
    LET spec == Head(items)
        next ==
          IF spec.operator \in {"<=", "==", "<"}
          THEN IF ~DictHas(max_versions, spec.plugin_name)
               THEN DictSet(max_versions, spec.plugin_name, <<spec.version, spec.operator>>)
               ELSE LET current_ver == DictGet(max_versions, spec.plugin_name)[1] IN
                    IF VersionLT(parse(spec.version), parse(current_ver))
                    THEN DictSet(max_versions, spec.plugin_name,
                                 <<spec.version, spec.operator>>)
                    ELSE max_versions
          ELSE max_versions
    IN  max_versions_loop(next, Tail(items))

\* The test of line 214 on one (lower, upper) pair.
PairConflicts(min_ver, min_op, max_ver, max_op) ==
  LET min_version == parse(min_ver)
      max_version == parse(max_ver)
  IN  \/ VersionGT(min_version, max_version)
      \/ min_version = max_version /\ (min_op = ">" \/ max_op = "<")

\* Lines 216-224: the text reported for a plugin is str(req.specifier) of the
\* last Requirement of the group that the plugin owns.
ReqStr(requirements, plugin) ==
  LET own == {i \in 1..Len(requirements) : requirements[i].plugin_name = plugin}
      last == CHOOSE i \in own : \A j \in own : j <= i
  IN  SpecifierStr(requirements[last].specifier)

InList(x, list) == \E i \in 1..Len(list) : list[i] = x

\* The loops of lines 207-228 over min_versions.items() x max_versions.items(),
\* from the k-th pair on.
RECURSIVE conflicting_loop(_, _, _, _, _)
conflicting_loop(conflicting_plugins, requirements, min_versions, max_versions, k) ==
  IF k > Len(min_versions) * Len(max_versions) THEN conflicting_plugins
  ELSE
    LET mn == min_versions[((k - 1) \div Len(max_versions)) + 1]
        mx == max_versions[((k - 1) % Len(max_versions)) + 1]
        plugin_min == mn.k
        plugin_max == mx.k
        next ==
          IF PairConflicts(mn.v[1], mn.v[2], mx.v[1], mx.v[2])
          THEN LET min_entry == <<plugin_min, ReqStr(requirements, plugin_min)>>
                   max_entry == <<plugin_max, ReqStr(requirements, plugin_max)>>
                   with_min == Append(conflicting_plugins, min_entry)
               IN  IF ~InList(max_entry, with_min)
                   THEN Append(with_min, max_entry)
                   ELSE with_min
          ELSE conflicting_plugins
    IN  conflicting_loop(next, requirements, min_versions, max_versions, k + 1)

\* The conflicting_plugins list of one dependency name (empty: no conflict found).
ConflictingPlugins(requirements) ==
  LET items == SpecItems(requirements)
  IN  conflicting_loop(<<>>, requirements,
                       min_versions_loop(<<>>, items), max_versions_loop(<<>>, items), 1)

\* len(requirements) <= 1: the group is skipped.
GroupSkipped(requirements) == Len(requirements) <= 1

\* The loop over dependency_requirements.items(), from the i-th name on.
RECURSIVE detect_loop(_, _, _)
detect_loop(conflicts, dependency_requirements, i) ==
  IF i > Len(dependency_requirements) THEN conflicts
  ELSE
    LET dep_name == dependency_requirements[i].k
        requirements == dependency_requirements[i].v
        found == IF GroupSkipped(requirements) THEN <<>>
                 ELSE ConflictingPlugins(requirements)
    IN  detect_loop(
          IF found # <<>>
          THEN Append(conflicts,
                      [dependency_name |-> dep_name, conflicting_plugins |-> found])
          ELSE conflicts,
          dependency_requirements, i + 1)

detect_conflicts(r) == detect_loop(<<>>, r.dependency_requirements, 1)

----------------------------------------------------------------------------
\* replace_dependency.

\* The characters of an operator's text.
OpChars(op) ==
  CASE op = "==" -> <<"=", "=">>
    [] op = ">=" -> <<">", "=">>
    [] op = "<=" -> <<"<", "=">>
    [] op = ">" -> <<">">>
    [] op = "<" -> <<"<">>
    [] op = "~=" -> <<"~", "=">>
    [] op = "!=" -> <<"!", "=">>
    [] op = "===" -> <<"=", "=", "=">>
    [] op = "=>" -> <<"=", ">">>
    [] OTHER -> <<>>

\* a in b, for two strings given by their characters.
IsSubstring(a, b) ==
  \E i \in 0..(Len(b) - Len(a)) : SubSeq(b, i + 1, i + Len(a)) = a

\* any(op in dep for op in ['==', '>=', '<=', '>', '<', '~=']): names and
\* versions hold none of these characters, so it is decided by the clauses'
\* operators.
HasVersionInfo(dep) ==
  \E op \in {"==", ">=", "<=", ">", "<", "~="} :
    \E i \in 1..Len(dep.clauses) : IsSubstring(OpChars(op), OpChars(dep.clauses[i][1]))

\* A string holding a name and nothing else, as a text; str.lower() of a text.
NameText(name) == [kind |-> "text", name |-> name, clauses |-> <<>>]

LowerText(text) == [text EXCEPT !.name = Lower(@)]

\* Lines 333-350: [ok, old_dep_name, old_dep_version] (ok FALSE: return 0).
ParseOldDep(old_dep) ==
  IF HasVersionInfo(old_dep)
  THEN IF Parseable(old_dep)
       THEN [ok |-> TRUE,
             old_dep_name |-> NameText(Lower(Requirement(old_dep).name)),
             old_dep_version |-> SpecifierStr(Requirement(old_dep).specifier)]
       ELSE [ok |-> FALSE, old_dep_name |-> NameText(""), old_dep_version |-> <<>>]
  ELSE [ok |-> TRUE, old_dep_name |-> LowerText(old_dep), old_dep_version |-> <<>>]

\* Lines 352-366: the new dependency is parsed only when it holds an operator.
NewDepAccepted(new_dep) == HasVersionInfo(new_dep) => Parseable(new_dep)

\* LineMatches without the test of the old range (line 412).
LineMatchesByName(line, old) ==
  /\ Parseable(line)
  /\ NameText(Lower(Requirement(line).name)) = old.old_dep_name

\* Lines 404-412: the line parses and matches the replacement condition.
LineMatches(line, old) ==
  /\ Parseable(line)
  /\ NameText(Lower(Requirement(line).name)) = old.old_dep_name
  /\ \/ old.old_dep_version = <<>>
     \/ SpecifierStr(Requirement(line).specifier) = old.old_dep_version

\* open(req_file, 'r').readlines(): text mode reads every terminator as "\n".
ReadLines(req_file) ==
  [i \in 1..Len(req_file) |-> [req_file[i] EXCEPT !.eol = "LF"]]

\* os.linesep: the program is modelled on a POSIX system.  (On Windows the
\* two terminators change places in what follows.)
os_linesep == "LF"

\* open(req_file, 'w').writelines(new_lines): text mode writes "\n" as os.linesep.
WriteLines(new_lines) ==
  [i \in 1..Len(new_lines) |->
     [new_lines[i] EXCEPT !.eol = IF @ = "LF" THEN os_linesep ELSE @]]

\* f"{new_dep_full}\n"
NewLine(new_dep) ==
  [kind |-> new_dep.kind, name |-> new_dep.name, clauses |-> new_dep.clauses, eol |-> "LF"]

\* Lines 395-423 on one line: the line appended to new_lines.
RewriteLine(original_line, old, new_dep) ==
  LET line == Strip(original_line) IN
  IF line.kind \in {"blank", "comment"} THEN original_line
  ELSE IF LineMatches(line, old) THEN NewLine(new_dep)
  ELSE original_line

\* Lines 382-433 on one manifest: [file, written].
RewriteFile(req_file, old, new_dep) ==
  LET lines == ReadLines(req_file)
      new_lines == [i \in 1..Len(lines) |-> RewriteLine(lines[i], old, new_dep)]
      file_updated == \E i \in 1..Len(lines) :
                        /\ Strip(lines[i]).kind \notin {"blank", "comment"}
                        /\ LineMatches(Strip(lines[i]), old)
  IN  IF file_updated
      THEN [file |-> WriteLines(new_lines), written |-> TRUE]
      ELSE [file |-> req_file, written |-> FALSE]

\* replace_dependency: [files, replaced_files]; it returns len(replaced_files).
replace_dependency(fs, old_dep, new_dep) ==
  LET old == ParseOldDep(old_dep) IN
  IF ~old.ok \/ ~NewDepAccepted(new_dep)
  THEN [files |-> fs, replaced_files |-> {}]
  ELSE
    LET out == [p \in Plugins |-> RewriteFile(fs[p], old, new_dep)]
    IN  [files |-> [p \in Plugins |-> out[p].file],
         replaced_files |-> {p \in Plugins : out[p].written}]

\* The old and new dependency texts a run passes to replace_dependency.
Dep(name, clauses) == [kind |-> "text", name |-> name, clauses |-> clauses]

OldDeps ==
  { Dep("libX", <<>>),                                    \* libX
    Dep("libX", <<Cl(">=", <<1>>)>>),                     \* libX>=1
    Dep("libX", <<Cl("<", <<1>>), Cl("==", <<2>>)>>),     \* libX<1,==2
    Dep("libY", <<Cl("~=", <<1, 0>>)>>),                  \* libY~=1.0
    Dep("libX", <<Cl("!=", <<1>>)>>),                     \* libX!=1
    Dep("libX", <<Cl("=>", <<1>>)>>) }                    \* libX=>1

NewDep == Dep("libX", <<Cl("==", <<2, 5>>)>>)            \* libX==2.5

BadNewDep == Dep("libX", <<Cl("=>", <<2>>)>>)             \* libX=>2

\* The (old_dep, new_dep) pairs of the model's replace_dependency calls.
ReplaceArgs ==
  {<<old_dep, NewDep>> : old_dep \in OldDeps} \cup {<<Dep("libX", <<>>), BadNewDep>>}

----------------------------------------------------------------------------
\* The state.
\*   files         the manifest (requirements.txt) of every plugin directory
\*   resolver      the DependencyResolver at hand; its warnings and errors
\*                 are those the latest scan logged
\*   conflicts     what the latest detect_conflicts call returned
\*   detected      detect_conflicts has run since the latest scan
\*   scans         the scan_plugins calls made on the resolver
\*   last_replace  when the latest command was a replacement: its arguments,
\*                 the manifests before it and the files it wrote; else empty
VARIABLES files, resolver, conflicts, detected, scans, last_replace

vars == <<files, resolver, conflicts, detected, scans, last_replace>>

Init ==
  /\ \E n \in 0..MaxLines :
       \E m \in 0..(MaxLines - n) :
         \E a \in Manifests(n), b \in Manifests(m) :
           files = [p \in Plugins |-> IF p = PluginDirs[1] THEN a ELSE b]
  /\ resolver = NewResolver
  /\ conflicts = <<>>
  /\ detected = FALSE
  /\ scans = 0
  /\ last_replace = <<>>

\* check_conflicts(plugins_dir): a new resolver, one scan, one detection.
CheckConflicts ==
  /\ resolver' = scan_plugins(NewResolver, files)
  /\ conflicts' = detect_conflicts(resolver')
  /\ detected' = TRUE
  /\ scans' = 1
  /\ last_replace' = <<>>
  /\ UNCHANGED files

\* resolver.scan_plugins() on the resolver at hand.
ScanPlugins ==
  /\ scans < MaxScans
  /\ resolver' = scan_plugins([resolver EXCEPT !.warnings = <<>>, !.errors = <<>>],
                               files)
  /\ detected' = FALSE
  /\ scans' = scans + 1
  /\ last_replace' = <<>>
  /\ UNCHANGED <<files, conflicts>>

\* check_conflicts(plugins_dir) when a read of the scan raises.
CheckConflictsReadError ==
  \E reads \in ReadsOf(files) :
    /\ resolver' = scan_plugins_reads(NewResolver, files, reads)
    /\ conflicts' = detect_conflicts(resolver')
    /\ detected' = TRUE
    /\ scans' = 1
    /\ last_replace' = <<>>
    /\ UNCHANGED files

\* resolver.scan_plugins() on the resolver at hand when a read raises.
ScanPluginsReadError ==
  \E reads \in ReadsOf(files) :
    /\ scans < MaxScans
    /\ resolver' = scan_plugins_reads(
                      [resolver EXCEPT !.warnings = <<>>, !.errors = <<>>],
                      files, reads)
    /\ detected' = FALSE
    /\ scans' = scans + 1
    /\ last_replace' = <<>>
    /\ UNCHANGED <<files, conflicts>>

\* resolver.detect_conflicts() on the resolver at hand.
DetectConflicts ==
  /\ conflicts' = detect_conflicts(resolver)
  /\ detected' = TRUE
  /\ last_replace' = <<>>
  /\ UNCHANGED <<files, resolver, scans>>

\* replace_dependency(plugins_dir, old_dep, new_dep): a new resolver, and
\* resolver.replace_dependency(old_dep, new_dep).
ReplaceDependency ==
  \E args \in ReplaceArgs :
    \E out \in {replace_dependency(files, args[1], args[2])} :
    /\ files' = out.files
    /\ last_replace' = <<[old_dep |-> args[1], new_dep |-> args[2],
                          before |-> files, replaced_files |-> out.replaced_files]>>
    /\ resolver' = NewResolver
    /\ conflicts' = <<>>
    /\ detected' = FALSE
    /\ scans' = 0

\* The commands, every read of a manifest succeeding.
Next == CheckConflicts \/ ScanPlugins \/ DetectConflicts \/ ReplaceDependency

Spec == Init /\ [][Next]_vars

\* The runs that only scan and detect, and the runs that only replace.
NextScan == CheckConflicts \/ ScanPlugins \/ DetectConflicts

SpecScan == Init /\ [][NextScan]_vars

NextReplace == ReplaceDependency

SpecReplace == Init /\ [][NextReplace]_vars

\* The runs that scan and detect, reads that raise included.
NextRead ==
  \/ CheckConflicts
  \/ ScanPlugins
  \/ DetectConflicts
  \/ CheckConflictsReadError
  \/ ScanPluginsReadError

SpecRead == Init /\ [][NextRead]_vars

----------------------------------------------------------------------------
\* The vocabulary of the claims about detect_conflicts, stated on the index
\* the resolver holds and on the list the latest detect_conflicts returned.

IndexNames == DictKeys(resolver.dependency_requirements)

Group(name) == DictGet(resolver.dependency_requirements, name)

OwnersOf(requirements) ==
  {requirements[i].plugin_name : i \in 1..Len(requirements)}

ConflictNames == {conflicts[i].dependency_name : i \in 1..Len(conflicts)}

\* Every clause an owner declares for the name, over all of its lines.
ClausesOf(requirements, owners) ==
  UNION {requirements[i].specifier :
           i \in {j \in 1..Len(requirements) : requirements[j].plugin_name \in owners}}

LowerClauses(clauses) == {c \in clauses : c[1] \in {">", ">=", "=="}}

UpperClauses(clauses) == {c \in clauses : c[1] \in {"<", "<=", "=="}}

\* c bounds from below at least as tightly as d: a higher version, or the
\* same version and c exclusive or d inclusive.
TightLower(c, d) ==
  \/ VersionGT(parse(c[2]), parse(d[2]))
  \/ parse(c[2]) = parse(d[2]) /\ (c[1] = ">" \/ d[1] # ">")

TightUpper(c, d) ==
  \/ VersionLT(parse(c[2]), parse(d[2]))
  \/ parse(c[2]) = parse(d[2]) /\ (c[1] = "<" \/ d[1] # "<")

\* The clauses that give the effective lower (upper) bound of a set of clauses.
EffectiveLower(clauses) ==
  {c \in LowerClauses(clauses) : \A d \in LowerClauses(clauses) : TightLower(c, d)}

EffectiveUpper(clauses) ==
  {c \in UpperClauses(clauses) : \A d \in UpperClauses(clauses) : TightUpper(c, d)}

\* global_lower is the tightest of the owners' effective lower bounds, that is
\* the tightest lower clause of the group; global_upper likewise.  The group is
\* infeasible when global_lower > global_upper, or they meet at one version
\* and one of them is exclusive.
Infeasible(requirements) ==
  LET all == ClausesOf(requirements, OwnersOf(requirements)) IN
  \E lo \in EffectiveLower(all), up \in EffectiveUpper(all) :
    \/ VersionGT(parse(lo[2]), parse(up[2]))
    \/ parse(lo[2]) = parse(up[2]) /\ (lo[1] = ">" \/ up[1] = "<")

\* C1: for every dependency name with Requirements from two or more distinct
\* owners, detect_conflicts reports a Conflict for the name if and only if
\* global_lower > global_upper, or they are equal and one of the two bounds at
\* that value is exclusive.
C1_ConflictIffInfeasible ==
  detected =>
    \A name \in IndexNames :
      Cardinality(OwnersOf(Group(name))) >= 2 =>
        (name \in ConflictNames <=> Infeasible(Group(name)))

\* C2: single-owner immunity: a dependency name whose Requirements all come
\* from one owner never gets a Conflict, however many lines declare it.
C2_SingleOwnerImmunity ==
  detected =>
    \A i \in 1..Len(conflicts) :
      Cardinality(OwnersOf(Group(conflicts[i].dependency_name))) # 1

\* C8: in every Conflict the responsible-owner list holds no (owner, range)
\* pair twice and names each owner at most once.
C8_NoRepeatedOwner ==
  detected =>
    \A i \in 1..Len(conflicts) :
      LET list == conflicts[i].conflicting_plugins IN
      \A a, b \in 1..Len(list) :
        a # b => list[a] # list[b] /\ list[a][1] # list[b][1]

\* The rendered ranges of the owner's Requirements that hold a clause giving
\* the owner's effective lower or upper bound.
BoundRanges(requirements, owner) ==
  LET own == ClausesOf(requirements, {owner})
      giving == EffectiveLower(own) \cup EffectiveUpper(own)
  IN  {SpecifierStr(requirements[i].specifier) :
         i \in {j \in 1..Len(requirements) :
                  /\ requirements[j].plugin_name = owner
                  /\ requirements[j].specifier \cap giving # {}}}

\* C9: the range text reported next to an owner in a Conflict is the rendered
\* range of the Requirement whose clause produced that owner's effective
\* bound, also when the owner declares the name on several lines.  (Stated on
\* the names that two or more owners declare, the case the claim is about.)
C9_ReportedRangeGivesBound ==
  detected =>
    \A i \in 1..Len(conflicts) :
      LET list == conflicts[i].conflicting_plugins
          requirements == Group(conflicts[i].dependency_name)
      IN  Cardinality(OwnersOf(requirements)) >= 2 =>
            \A a \in 1..Len(list) :
              list[a][2] \in BoundRanges(requirements, list[a][1])

\* C10: every Conflict lists at least two distinct owners.
C10_TwoDistinctOwners ==
  detected =>
    \A i \in 1..Len(conflicts) :
      LET list == conflicts[i].conflicting_plugins IN
      Cardinality({list[a][1] : a \in 1..Len(list)}) >= 2

----------------------------------------------------------------------------
\* Claims about repeated scans.  The manifests do not change while a resolver
\* lives (a replacement starts a new one), so files is the manifest set of
\* every scan the resolver has made.

\* C3: over an unchanged manifest set every scan_plugins + detect_conflicts
\* run returns the Conflict list a run on a new resolver returns, the same in
\* content and order, also when the scan is repeated on one resolver.
C3_ScanIdempotent ==
  (detected /\ scans >= 1) =>
    conflicts = detect_conflicts(scan_plugins(NewResolver, files))

\* C4: after any number of scan_plugins calls over the same manifest set the
\* name-to-Requirements index is the index after one scan.
C4_IndexIdempotent ==
  scans >= 1 =>
    resolver.dependency_requirements
      = scan_plugins(NewResolver, files).dependency_requirements

----------------------------------------------------------------------------
\* Claims about lines that do not parse.

\* A declaration line that is no requirement: one of its clauses has an
\* operator that is no specifier operator.
Malformed(line) ==
  /\ line.kind = "text"
  /\ \E i \in 1..Len(line.clauses) : line.clauses[i][1] \notin SupportedOps

Kept(line) == line.kind = "text" /\ ~Malformed(line)

\* The Requirements of the parseable, non-blank, non-comment lines, in file order.
RECURSIVE KeptRequirements(_, _)
KeptRequirements(owner, lines) ==
  IF lines = <<>> THEN <<>>
  ELSE (IF Kept(Head(lines))
        THEN <<DependencyRequirement(Strip(Head(lines)), owner)>>
        ELSE <<>>)
       \o KeptRequirements(owner, Tail(lines))

\* The (owner, line number) of every malformed line of the manifests.
MalformedAt ==
  UNION {{[plugin |-> p, line_num |-> i] :
            i \in {j \in 1..Len(files[p]) : Malformed(files[p][j])}} : p \in Plugins}

WithoutMalformed(fs) ==
  [p \in Plugins |-> SelectSeq(fs[p], LAMBDA line : ~Malformed(line))]

\* C5: a line that fails to parse is skipped and recorded as one warning
\* naming the owner and the line number; the Requirements kept for an owner
\* are those of its parseable non-blank non-comment lines, in file order; and
\* every Requirement is what it would be with the malformed lines absent.
C5_MalformedLineSkipped ==
  scans >= 1 =>
    /\ \A p \in Plugins :
         DictGet(resolver.all_requirements, p) = KeptRequirements(p, files[p])
    /\ {resolver.warnings[k] : k \in 1..Len(resolver.warnings)} = MalformedAt
    /\ Len(resolver.warnings) = Cardinality(MalformedAt)
    /\ resolver.all_requirements
         = scan_plugins(NewResolver, WithoutMalformed(files)).all_requirements
    /\ scans = 1 =>
         resolver.dependency_requirements
           = scan_plugins(NewResolver, WithoutMalformed(files)).dependency_requirements

\* A scan has met a manifest with a malformed line and a line it keeps.
C5_Witness ==
  /\ scans >= 1
  /\ \E p \in Plugins :
       /\ \E i \in 1..Len(files[p]) : Malformed(files[p][i])
       /\ \E i \in 1..Len(files[p]) : Kept(files[p][i])
       /\ DictGet(resolver.all_requirements, p) # <<>>
       /\ resolver.warnings # <<>>

----------------------------------------------------------------------------
\* Claims about replace_dependency, stated on the latest replacement: the
\* manifests before it (before), the manifests now (files), its arguments.

\* The rendered text of a range: its clauses' texts in sorted order.
RangeText(clauses) == Sorted({clauses[i] : i \in 1..Len(clauses)})

\* A name, optionally followed by a range of clauses with the seven operators.
WellFormedDep(dep) ==
  \A i \in 1..Len(dep.clauses) :
    dep.clauses[i][1] \in {"==", ">=", "<=", ">", "<", "~=", "!="}

\* The line matches (name, optional old range): it parses, its lowercase name
\* is the old name and, when a range is given, its rendered range is the old
\* range's.
Declares(line, old_dep) ==
  /\ Kept(line)
  /\ Lower(line.name) = Lower(old_dep.name)
  /\ old_dep.clauses # <<>> => RangeText(line.clauses) = RangeText(old_dep.clauses)

C7_ReplaceEveryMatch ==
  last_replace # <<>> =>
    LET c == last_replace[1] IN
    (WellFormedDep(c.old_dep) /\ WellFormedDep(c.new_dep)) =>
      \A p \in Plugins :
        \A i \in 1..Len(c.before[p]) :
          Declares(c.before[p][i], c.old_dep) =>
            /\ Len(files[p]) = Len(c.before[p])
            /\ Strip(files[p][i]) = c.new_dep
            /\ Requirement(Strip(files[p][i])).specifier = Requirement(c.new_dep).specifier

----------------------------------------------------------------------------
\* The owners whose manifest the latest scan reported as unreadable.
Unreadable == {resolver.errors[i].plugin : i \in 1..Len(resolver.errors)}

\* The Requirements of the by-name index.
Indexed ==
  UNION {{Group(name)[i] : i \in 1..Len(Group(name))} : name \in IndexNames}

\* C11: after any sequence of scans, reads that fail part-way included, every
\* Requirement of the by-name index belongs to an owner recorded in
\* all_requirements and appears in that owner's list.
C11_StoresConsistent ==
  \A q \in Indexed :
    /\ DictHas(resolver.all_requirements, q.plugin_name)
    /\ InList(q, DictGet(resolver.all_requirements, q.plugin_name))

====
